---- MODULE Spec2Model ----
(***************************************************************************)
(* The query command of typst-cli (crates/typst-cli/src/query.rs): compile *)
(* the document, evaluate the selector, query the introspector, lay out    *)
(* the first match in a fresh engine, render its first page to SVG and     *)
(* write ./output.svg.                                                     *)
(***************************************************************************)
EXTENDS Integers, Sequences, FiniteSets, TLC

VARIABLES
    pc,           \* position of query() in its body
    world,        \* SystemWorld: whether it can be built and its main file read
    command,      \* QueryCommand: the selector string
    file,         \* content of ./output.svg
    old_file,     \* content of ./output.svg when the run started
    result,       \* result of typst::compile
    tracer,       \* the Tracer handed to typst::compile
    styles,       \* styles taken from the tracer
    document,     \* the Document bound by the Ok arm
    selector,     \* the LocatableSelector retrieve evaluated
    data,         \* Vec<Content> returned by retrieve
    retrieved,    \* every value retrieve has returned so far
    first_match,  \* data.first().unwrap()
    constraint,   \* <Introspector as Validate>::Constraint
    engine,       \* the Engine built for the re-layout
    layout_calls, \* arguments of every layout_root call
    reads,        \* every read made through engine.introspector
    new_doc,      \* Document returned by layout_root
    first_frame,  \* new_doc.pages.first().unwrap().frame
    svg,          \* typst_svg::svg(first_frame)
    rendered,     \* frames handed to typst_svg::svg
    calls,        \* external operations invoked so far, in order
    failed,       \* the process-level flag set by set_failed()
    ret,          \* what query() returned
    exited        \* main has handled query()'s return value

vars == <<pc, world, command, file, old_file, result, tracer, styles, document,
          selector, data, retrieved, first_match, constraint, engine,
          layout_calls, reads, new_doc, first_frame, svg, rendered, calls,
          failed, ret, exited>>

-----------------------------------------------------------------------------
(* Bounds *)

MaxNodes == 2     \* content nodes in a document
MaxPages == 2     \* pages a re-layout returns
MaxReads == 2     \* introspector reads made by one layout_root call
MaxRetrieve == 2  \* retrieve calls in the retrieve-only specification

-----------------------------------------------------------------------------
(* Values *)

None == [kind |-> "None"]

Kinds == {"heading", "figure"}

\* Selector strings a user may pass.
Exprs == {"heading", "figure", "12", "12+", "(12+", "(12+ *"}

\* Content of a document in document order: node i has location i.
Introspectors ==
    UNION {{[i \in 1..n |-> [loc |-> i, elem |-> ks[i]]] : ks \in [1..n -> Kinds]}
           : n \in 0..MaxNodes}

\* What the tracer can hold after a compile.
TracerValues ==
    {<<>>,
     <<[value |-> "v", styles |-> None]>>,
     <<[value |-> "v", styles |-> [kind |-> "Some", styles |-> "compiled"]]>>}

OldContent == <<"<svg>", "old", "</svg>">>

Range(s) == {s[i] : i \in 1..Len(s)}

-----------------------------------------------------------------------------
(* Collaborators *)

\* typst::eval::eval_string in EvalMode::Code.
EvalString(string) ==
    CASE string \in Kinds ->
           [kind |-> "Ok", value |-> [type |-> "selector", elem |-> string]]
      [] string = "12" ->
           [kind |-> "Ok", value |-> [type |-> "integer"]]
      [] string = "12+" ->
           [kind |-> "Err", errors |-> <<"expected expression">>]
      [] string = "(12+" ->
           [kind |-> "Err",
            errors |-> <<"expected expression", "unclosed delimiter">>]
      [] OTHER ->
           [kind |-> "Err",
            errors |-> <<"expected expression", "unexpected star",
                         "unclosed delimiter">>]

\* Value::cast::<LocatableSelector>.
Cast(value) ==
    IF value.type = "selector"
    THEN [kind |-> "Ok", value |-> [elem |-> value.elem]]
    ELSE [kind |-> "Err",
          message |-> "expected selector, found " \o value.type]

\* Introspector::query: the matching nodes in document order.
Query(introspector, sel) ==
    SelectSeq(introspector, LAMBDA n : n.elem = sel.elem)

\* A read through the tracked introspector: the answer of the wrapped
\* introspector, recorded in the constraint.
TrackedQuery(tracked, sel) == Query(tracked, sel)

-----------------------------------------------------------------------------
(* retrieve *)

RECURSIVE PushErrors(_, _, _)
PushErrors(message, errors, i) ==
    IF i >= Len(errors) THEN message
    ELSE PushErrors(message \o (IF i = 0 THEN ": " ELSE ", ") \o errors[i + 1],
                    errors, i + 1)

\* Mutant of MapErr: only the first error is reported.
MapErrFirstOnly(errors) ==
    "failed to evaluate selector" \o ": " \o errors[1]

\* .map_err(|errors| { ... message })
MapErr(errors) == PushErrors("failed to evaluate selector", errors, 0)

RetrieveSelector(cmd) ==
    LET evaluated == EvalString(cmd.selector) IN
    IF evaluated.kind = "Err"
    THEN [kind |-> "Err", message |-> MapErr(evaluated.errors)]
    ELSE Cast(evaluated.value)

RECURSIVE CollectFrom(_, _)
CollectFrom(iter, vec) ==
    IF iter = <<>> THEN vec
    ELSE CollectFrom(Tail(iter), Append(vec, Head(iter)))

RECURSIVE CollectReversed(_)
\* Mutant of Collect: the matches come out in reverse order.
CollectReversed(iter) ==
    IF iter = <<>> THEN <<>>
    ELSE Append(CollectReversed(Tail(iter)), Head(iter))

\* .into_iter().collect::<Vec<_>>()
Collect(iter) == CollectFrom(iter, <<>>)

RetrieveQuery(doc, sel) == Collect(Query(doc.introspector, sel))

Retrieve(cmd, doc) ==
    LET sel == RetrieveSelector(cmd) IN
    IF sel.kind = "Err" THEN sel
    ELSE [kind |-> "Ok", value |-> RetrieveQuery(doc, sel.value)]

-----------------------------------------------------------------------------
(* query *)

Absent == [exists |-> FALSE, content |-> <<>>]

Init ==
    /\ pc = "compile"
    /\ world \in [ok : BOOLEAN]
    /\ command \in [selector : Exprs]
    /\ file \in {Absent, [exists |-> TRUE, content |-> OldContent]}
    /\ old_file = file
    /\ result = None
    /\ tracer = [values |-> <<>>]
    /\ styles = None
    /\ document = None
    /\ selector = None
    /\ data = <<>>
    /\ retrieved = <<>>
    /\ first_match = None
    /\ constraint = {}
    /\ engine = None
    /\ layout_calls = <<>>
    /\ reads = <<>>
    /\ new_doc = None
    /\ first_frame = None
    /\ svg = <<>>
    /\ rendered = <<>>
    /\ calls = <<>>
    /\ failed = FALSE
    /\ ret = None
    /\ exited = FALSE

\* `?` on an Err: query returns the error to its caller.
ReturnErr(message) ==
    /\ pc' = "Aborted"
    /\ ret' = [kind |-> "Err", message |-> message]

\* unwrap() on None or Err: the thread panics.
Panic ==
    /\ pc' = "Panicked"
    /\ ret' = [kind |-> "panic"]

\* SystemWorld::new, world.source(main), typst::compile.
Compile ==
    /\ pc = "compile"
    /\ \/ /\ ~world.ok
          /\ ReturnErr("failed to load main file")
          /\ UNCHANGED <<result, tracer, calls>>
       \/ /\ world.ok
          /\ \E r \in {[kind |-> "Err", errors |-> <<"compile error">>]}
                      \cup {[kind |-> "Ok", value |-> [introspector |-> x]]
                            : x \in Introspectors} :
                result' = r
          /\ \E v \in TracerValues : tracer' = [values |-> v]
          /\ calls' = Append(calls, "compile")
          /\ pc' = "styles"
          /\ UNCHANGED ret
    /\ UNCHANGED <<world, command, file, old_file, styles, document, selector,
                   data, retrieved, first_match, constraint, engine,
                   layout_calls, reads, new_doc, first_frame, svg, rendered,
                   failed, exited>>

\* tracer.values().first().unwrap().1.clone().unwrap()
ExtractStyles ==
    /\ pc = "styles"
    /\ calls' = Append(calls, "styles")
    /\ IF tracer.values = <<>> \/ Head(tracer.values).styles = None
       THEN Panic /\ UNCHANGED styles
       ELSE /\ styles' = Head(tracer.values).styles.styles
            /\ pc' = "match"
            /\ UNCHANGED ret
    /\ UNCHANGED <<world, command, file, old_file, result, tracer, document,
                   selector, data, retrieved, first_match, constraint, engine,
                   layout_calls, reads, new_doc, first_frame, svg, rendered,
                   failed, exited>>

\* match result { Ok(document) => ..., Err(errors) => { set_failed(); } }
MatchResult ==
    /\ pc = "match"
    /\ IF result.kind = "Ok"
       THEN /\ document' = result.value
            /\ pc' = "eval"
            /\ UNCHANGED <<failed, ret>>
       ELSE /\ failed' = TRUE
            /\ pc' = "Aborted"
            /\ ret' = [kind |-> "Ok"]
            /\ UNCHANGED document
    /\ UNCHANGED <<world, command, file, old_file, result, tracer, styles,
                   selector, data, retrieved, first_match, constraint, engine,
                   layout_calls, reads, new_doc, first_frame, svg, rendered,
                   calls, exited>>

\* retrieve: eval_string(...).map_err(...)?.cast::<LocatableSelector>()?
EvalSelector ==
    /\ pc = "eval"
    /\ calls' = Append(calls, "eval")
    /\ LET sel == RetrieveSelector(command) IN
       IF sel.kind = "Err"
       THEN /\ ReturnErr(sel.message)
            /\ retrieved' = Append(retrieved, sel)
            /\ UNCHANGED selector
       ELSE /\ selector' = sel.value
            /\ pc' = "query"
            /\ UNCHANGED <<ret, retrieved>>
    /\ UNCHANGED <<world, command, file, old_file, result, tracer, styles,
                   document, data, first_match, constraint, engine,
                   layout_calls, reads, new_doc, first_frame, svg, rendered,
                   failed, exited>>

\* retrieve: Ok(document.introspector.query(&selector.0).into_iter().collect())
QueryIndex ==
    /\ pc = "query"
    /\ calls' = Append(calls, "query")
    /\ data' = RetrieveQuery(document, selector)
    /\ retrieved' = Append(retrieved, [kind |-> "Ok", value |-> data'])
    /\ pc' = "first"
    /\ UNCHANGED <<world, command, file, old_file, result, tracer, styles,
                   document, selector, first_match, constraint, engine,
                   layout_calls, reads, new_doc, first_frame, svg, rendered,
                   failed, ret, exited>>

\* Mutant of First: the last element is taken.
LastOf(vec) ==
    IF vec = <<>> THEN None ELSE [kind |-> "Some", value |-> vec[Len(vec)]]

\* Vec::first
First(vec) == IF vec = <<>> THEN None ELSE [kind |-> "Some", value |-> vec[1]]

\* let first_match = data.first().unwrap();
FirstMatch ==
    /\ pc = "first"
    /\ IF First(data) = None
       THEN Panic /\ UNCHANGED first_match
       ELSE /\ first_match' = First(data).value
            /\ pc' = "engine"
            /\ UNCHANGED ret
    /\ UNCHANGED <<world, command, file, old_file, result, tracer, styles,
                   document, selector, data, retrieved, constraint, engine,
                   layout_calls, reads, new_doc, first_frame, svg, rendered,
                   calls, failed, exited>>

\* <Introspector as Validate>::Constraint::new()
NewConstraint == {}

\* Tracer::new()
NewTracer == [values |-> <<>>]

\* Mutant of EngineIntrospector: a new, empty introspector is tracked.
EngineIntrospectorDefault(doc) == <<>>

\* document.introspector.track_with(&constraint)
EngineIntrospector(doc) == doc.introspector

\* let mut engine = Engine { world, route, tracer, locator, introspector };
BuildEngine ==
    /\ pc = "engine"
    /\ constraint' = NewConstraint
    /\ engine' = [world |-> world,
                  route |-> <<>>,
                  tracer |-> NewTracer,
                  locator |-> 0,
                  introspector |-> EngineIntrospector(document)]
    /\ pc' = "layout"
    /\ UNCHANGED <<world, command, file, old_file, result, tracer, styles,
                   document, selector, data, retrieved, first_match,
                   layout_calls, reads, new_doc, first_frame, svg, rendered,
                   calls, failed, ret, exited>>

\* first_match.layout_root(&mut engine, StyleChain::new(&styles)) is entered.
LayoutCall ==
    /\ pc = "layout"
    /\ calls' = Append(calls, "layout")
    /\ layout_calls' = Append(layout_calls,
                              [node |-> first_match, styles |-> styles,
                               engine |-> engine, constraint |-> constraint])
    /\ pc' = "in_layout"
    /\ UNCHANGED <<world, command, file, old_file, result, tracer, styles,
                   document, selector, data, retrieved, first_match,
                   constraint, engine, reads, new_doc, first_frame, svg,
                   rendered, failed, ret, exited>>

\* layout_root reads the document through engine.introspector.
LayoutRead ==
    /\ pc = "in_layout"
    /\ Len(reads) < MaxReads
    /\ \E k \in Kinds :
          LET entry == [call |-> [elem |-> k],
                        ret |-> TrackedQuery(engine.introspector, [elem |-> k])]
          IN /\ reads' = Append(reads, entry)
             /\ constraint' = constraint \cup {entry}
    /\ UNCHANGED <<pc, world, command, file, old_file, result, tracer, styles,
                   document, selector, data, retrieved, first_match, engine,
                   layout_calls, new_doc, first_frame, svg, rendered, calls,
                   failed, ret, exited>>

\* layout_root returns; .unwrap()
LayoutReturn ==
    /\ pc = "in_layout"
    /\ \/ /\ Panic
          /\ UNCHANGED new_doc
       \/ /\ \E n \in 0..MaxPages :
                new_doc' = [kind |-> "Ok",
                            pages |-> [i \in 1..n |->
                                         [frame |-> [node |-> first_match.loc,
                                                     elem |-> first_match.elem,
                                                     styles |-> styles,
                                                     page |-> i]]]]
          /\ pc' = "frame"
          /\ UNCHANGED ret
    /\ UNCHANGED <<world, command, file, old_file, result, tracer, styles,
                   document, selector, data, retrieved, first_match,
                   constraint, engine, layout_calls, reads, first_frame, svg,
                   rendered, calls, failed, exited>>

\* let first_frame = &new_doc.pages.first().unwrap().frame;
FirstFrame ==
    /\ pc = "frame"
    /\ IF First(new_doc.pages) = None
       THEN Panic /\ UNCHANGED first_frame
       ELSE /\ first_frame' = First(new_doc.pages).value.frame
            /\ pc' = "render"
            /\ UNCHANGED ret
    /\ UNCHANGED <<world, command, file, old_file, result, tracer, styles,
                   document, selector, data, retrieved, first_match,
                   constraint, engine, layout_calls, reads, new_doc, svg,
                   rendered, calls, failed, exited>>

\* typst_svg::svg
Svg(frame) ==
    <<"<svg>",
      frame.elem \o "@" \o ToString(frame.node) \o "/" \o ToString(frame.page)
          \o ":" \o frame.styles,
      "</svg>">>

\* let svg = typst_svg::svg(first_frame);
Render ==
    /\ pc = "render"
    /\ calls' = Append(calls, "render")
    /\ rendered' = Append(rendered, first_frame)
    /\ svg' = Svg(first_frame)
    /\ pc' = "write"
    /\ UNCHANGED <<world, command, file, old_file, result, tracer, styles,
                   document, selector, data, retrieved, first_match,
                   constraint, engine, layout_calls, reads, new_doc,
                   first_frame, failed, ret, exited>>

\* What std::fs::write can leave behind: it opens the path with create and
\* truncate, then writes the whole buffer.
FsWrite(before, contents) ==
    {[ok |-> TRUE, file |-> [exists |-> TRUE, content |-> contents]],
     [ok |-> FALSE, file |-> before]}
    \cup {[ok |-> FALSE,
           file |-> [exists |-> TRUE, content |-> SubSeq(contents, 1, k)]]
          : k \in 0..(Len(contents) - 1)}

\* std::fs::write(output_path, svg).unwrap(); ... Ok(())
WriteFile ==
    /\ pc = "write"
    /\ calls' = Append(calls, "write")
    /\ \E w \in FsWrite(file, svg) :
          /\ file' = w.file
          /\ IF w.ok
             THEN pc' = "Done" /\ ret' = [kind |-> "Ok"]
             ELSE Panic
    /\ UNCHANGED <<world, command, old_file, result, tracer, styles, document,
                   selector, data, retrieved, first_match, constraint, engine,
                   layout_calls, reads, new_doc, first_frame, svg, rendered,
                   failed, exited>>

\* main: if let Err(msg) = res { set_failed(); print_error(&msg) }
MainExit ==
    /\ pc \in {"Done", "Aborted"}
    /\ ~exited
    /\ exited' = TRUE
    /\ failed' = (failed \/ ret.kind = "Err")
    /\ UNCHANGED <<pc, world, command, file, old_file, result, tracer, styles,
                   document, selector, data, retrieved, first_match,
                   constraint, engine, layout_calls, reads, new_doc,
                   first_frame, svg, rendered, calls, ret>>

Next ==
    \/ Compile
    \/ ExtractStyles
    \/ MatchResult
    \/ EvalSelector
    \/ QueryIndex
    \/ FirstMatch
    \/ BuildEngine
    \/ LayoutCall
    \/ LayoutRead
    \/ LayoutReturn
    \/ FirstFrame
    \/ Render
    \/ WriteFile
    \/ MainExit

Spec == Init /\ [][Next]_vars

-----------------------------------------------------------------------------
(* retrieve on its own: the same document queried repeatedly *)

InitRetrieve ==
    /\ pc = "retrieve"
    /\ world = [ok |-> TRUE]
    /\ command \in [selector : Exprs]
    /\ file = Absent
    /\ old_file = file
    /\ result \in {[kind |-> "Ok", value |-> [introspector |-> x]]
                   : x \in Introspectors}
    /\ tracer = [values |-> <<>>]
    /\ styles = None
    /\ document = result.value
    /\ selector = None
    /\ data = <<>>
    /\ retrieved = <<>>
    /\ first_match = None
    /\ constraint = {}
    /\ engine = None
    /\ layout_calls = <<>>
    /\ reads = <<>>
    /\ new_doc = None
    /\ first_frame = None
    /\ svg = <<>>
    /\ rendered = <<>>
    /\ calls = <<>>
    /\ failed = FALSE
    /\ ret = None
    /\ exited = FALSE

\* retrieve(&world, command, &document)
RetrieveCall ==
    /\ pc = "retrieve"
    /\ Len(retrieved) < MaxRetrieve
    /\ retrieved' = Append(retrieved, Retrieve(command, document))
    /\ UNCHANGED <<pc, world, command, file, old_file, result, tracer, styles,
                   document, selector, data, first_match, constraint, engine,
                   layout_calls, reads, new_doc, first_frame, svg, rendered,
                   calls, failed, ret, exited>>

NextRetrieve == RetrieveCall

SpecRetrieve == InitRetrieve /\ [][NextRetrieve]_vars

-----------------------------------------------------------------------------
(* Properties *)

\* The orchestrator state of the specification that a position stands for.
StateOf(p) ==
    CASE p \in {"compile", "styles", "match"} -> "Compiling"
      [] p = "eval" -> "Compiled"
      [] p = "query" -> "SelectorEvaluated"
      [] p = "first" -> "Queried"
      [] p \in {"engine", "layout", "in_layout"} -> "Matched"
      [] p \in {"frame", "render"} -> "LaidOut"
      [] p = "write" -> "Rendered"
      [] OTHER -> p

StateOrder ==
    <<"Compiling", "Compiled", "SelectorEvaluated", "Queried", "Matched",
      "LaidOut", "Rendered", "Done">>

Successor(a, b) ==
    \E i \in 1..(Len(StateOrder) - 1) : StateOrder[i] = a /\ StateOrder[i + 1] = b

Called(op) == op \in Range(calls)

\* The run is over: main has taken query's result, or the thread panicked.
Terminal == exited \/ pc = "Panicked"

\* Nodes of the document that the selector matches.
Matching(doc, sel) == {n \in Range(doc.introspector) : n.elem = sel.elem}

RECURSIVE Joined(_, _)
Joined(strs, sep) ==
    IF Len(strs) = 1 THEN strs[1]
    ELSE strs[1] \o sep \o Joined(Tail(strs), sep)

\* C1: a selector that evaluates but matches no node ends the run in Aborted
\* with the process marked failed; no layout, no render, no file written.
C1_EmptyQueryAborts ==
    (Terminal /\ Called("query") /\ data = <<>>) =>
        /\ pc = "Aborted"
        /\ failed
        /\ ~Called("layout") /\ ~Called("render") /\ ~Called("write")
        /\ file = old_file

\* C2: a failed compile goes straight to Aborted: nothing that needs a
\* compiled document (style extraction included) runs after it, and the
\* process ends marked failed.
C2_CompileFailureAbortsDirectly ==
    result.kind = "Err" =>
        /\ calls = <<"compile">>
        /\ pc \in {"styles", "match", "Aborted"}
        /\ Terminal => failed

\* C3: a re-layout that returns zero pages ends in an error result; render is
\* not invoked and the file is not written.
C3_EmptyLayoutIsError ==
    (new_doc.kind = "Ok" /\ pc # "frame" /\ new_doc.pages = <<>>) =>
        /\ pc = "Aborted"
        /\ ret.kind = "Err"
        /\ ~Called("render")
        /\ file = old_file

\* C4: unless the run reached Done the output file is absent or holds what it
\* held before the run; at Done it holds the whole render output.
C4_FileIntactUnlessDone ==
    /\ pc # "Done" => (file = Absent \/ file = old_file)
    /\ pc = "Done" => file = [exists |-> TRUE, content |-> svg]

\* C5: when the run is over the failed flag is set exactly if the run did not
\* reach Done, every failure was returned as a result (no panic), and a run
\* that wrote the file returned Ok.
C5_FailedIffError ==
    Terminal =>
        /\ pc # "Panicked"
        /\ failed <=> pc # "Done"
        /\ pc = "Done" => ret.kind = "Ok"

\* C6: when evaluating the selector fails with errors e1..en, query returns
\* "failed to evaluate selector: e1, ..., en" and the index was not queried.
C6_MessageJoinsAllErrors ==
    (Called("eval") /\ EvalString(command.selector).kind = "Err") =>
        /\ pc = "Aborted"
        /\ ret = [kind |-> "Err",
                  message |-> "failed to evaluate selector: "
                              \o Joined(EvalString(command.selector).errors, ", ")]
        /\ ~Called("query")
        /\ data = <<>>

C6_Witness ==
    /\ Called("eval")
    /\ EvalString(command.selector).kind = "Err"
    /\ Len(EvalString(command.selector).errors) = 3
    /\ exited

\* C7: every step keeps the orchestrator state, moves it to the next state of
\* Compiling, Compiled, SelectorEvaluated, Queried, Matched, LaidOut, Rendered,
\* Done, or moves it to Aborted.
C7_StrictStateOrder ==
    [][\/ StateOf(pc') = StateOf(pc)
       \/ Successor(StateOf(pc), StateOf(pc'))
       \/ StateOf(pc') = "Aborted"]_vars

\* C8: every read made through the engine's tracked introspector returns what
\* the compiled document's introspector returns for the same query; the
\* document is the one compile produced; the constraint starts empty at the
\* layout call and holds exactly the reads made.
C8_ViewAgreesWithIndex ==
    /\ \A i \in 1..Len(reads) :
          reads[i].ret = Query(document.introspector, reads[i].call)
    /\ document # None => document = result.value
    /\ constraint = Range(reads)
    /\ \A i \in 1..Len(layout_calls) : layout_calls[i].constraint = {}

C8_Witness ==
    /\ pc = "Done"
    /\ Len(reads) >= 2
    /\ \E i \in 1..Len(reads) : Len(reads[i].ret) >= 1
    /\ Cardinality(constraint) >= 2

\* C9: retrieve returns exactly the nodes of the document that the selector
\* matches, in document order, and every call with the same document and
\* selector returns the same sequence.
C9_RetrieveDocumentOrder ==
    /\ \A k \in 1..Len(retrieved) :
          retrieved[k].kind = "Ok" =>
             LET v == retrieved[k].value IN
             /\ \A i, j \in 1..Len(v) : i < j => v[i].loc < v[j].loc
             /\ Range(v) = Matching(document, EvalString(command.selector).value)
    /\ \A k, l \in 1..Len(retrieved) : retrieved[k] = retrieved[l]
    /\ document = result.value

C9_Witness ==
    /\ Len(retrieved) = 2
    /\ retrieved[2].kind = "Ok"
    /\ Len(retrieved[2].value) >= 2

====
